---- MODULE Spec2Model ----
(***************************************************************************)
(* Task Management API (FastAPI + SQLAlchemy): the user store, the task    *)
(* store, bearer tokens and the request handlers of /api/v1/auth and       *)
(* /api/v1/tasks.                                                          *)
(*                                                                         *)
(* A handler is a sequence of steps, one per database statement or commit. *)
(* With mode = "seq" requests are served one at a time, each handler       *)
(* running to its response before anything else happens (Spec, SpecAuth);  *)
(* with mode = "conc" the steps of two requests and the store-side         *)
(* operations interleave (SpecConc): the endpoints are sync functions run  *)
(* on a thread pool, each with its own session.                            *)
(*                                                                         *)
(*   settings          the Settings loaded at process start: the database  *)
(*                     backend and the access-token TTL                    *)
(*   users, tasks      the rows of the two tables                          *)
(*   nextUserId/TaskId the id sequences of a PostgreSQL backend (a value   *)
(*                     is never reused); under SQLite, where a new row     *)
(*                     gets the largest id in the table plus one, they     *)
(*                     only count the inserts                              *)
(*   deleted           the ids of the tasks a DELETE request has answered  *)
(*                     204 for                                             *)
(*   now               the server clock, in minutes                        *)
(*   held              the access token the client was last given at login *)
(*   req[p]            the request in flight on connection p               *)
(*   last              the request answered by the latest step, with its   *)
(*                     response; IdleReq when the latest step answered     *)
(*                     none                                                *)
(*                                                                         *)
(* Spec serves every route, with the roles, is_active flags and deletions  *)
(* of users changing between requests; SpecAuth serves the auth routes     *)
(* with the clock advancing and passwords changing as well; SpecConc       *)
(* interleaves registrations, logins, user updates and deletions.  These   *)
(* run under the default settings.  SpecSettings is SpecAuth under every   *)
(* access-token TTL, SpecStore the task routes on either backend;          *)
(* SpecInput and SpecFrame serve task creation and update with bodies in   *)
(* and out of the schemas and with the clock advancing; SpecUpdates,       *)
(* SpecLists and SpecOwners interleave the steps of task updates, of lists *)
(* with creations and deletions, and of creations with user deletions.     *)
(* SpecReject serves registrations under differing names and passwords,    *)
(* logins and the task writes, one request at a time.                      *)
(***************************************************************************)
EXTENDS Integers, FiniteSets, Sequences, TLC

VARIABLES users, tasks, nextUserId, nextTaskId, now, held, req, last, mode,
          settings, deleted

vars == <<users, tasks, nextUserId, nextTaskId, now, held, req, last, mode,
          settings, deleted>>

(* ------------------------------ bounds --------------------------------- *)

MaxUsers == 2
MaxTasks == 2
MaxTime == 30
TickMinutes == 15

Procs == {"p1", "p2"}
Emails == {"a@x.com", "b@x.com"}
Passwords == {"pw12345678", "pw87654321"}
RegisterPasswords == {"pw12345678"}
FullNames == {""}
Titles == {"T1", "T2"}
Descriptions == {}

(* ---------------------------- configuration ---------------------------- *)

SECRET_KEY == "your-super-secret-key-change-in-production"
OtherSecret == "some-other-secret"
DATABASE_URL == "postgresql"
ACCESS_TOKEN_EXPIRE_MINUTES == 30
DefaultLimit == 100

\* Settings(): the defaults of the class, when the environment sets nothing.
DefaultSettings ==
    [DATABASE_URL |-> DATABASE_URL,
     ACCESS_TOKEN_EXPIRE_MINUTES |-> ACCESS_TOKEN_EXPIRE_MINUTES]

\* The settings the environment can give: the backends the engine is set
\* up for (PostgreSQL, and SQLite as in the test suite) and the TTLs.
Backends == {"postgresql", "sqlite"}
ExpireMinutes == {TickMinutes, ACCESS_TOKEN_EXPIRE_MINUTES}
LoadableSettings ==
    [DATABASE_URL : Backends, ACCESS_TOKEN_EXPIRE_MINUTES : ExpireMinutes]

UserRole == {"user", "admin"}

(* ------------------------------ sentinels ------------------------------ *)

NoUser == [id |-> 0]
NoTask == [id |-> 0]
NoToken == [kind |-> "none"]
NoSub == 0
NoBody == [none |-> TRUE]
Unset == "<unset>"
Null == "<null>"

(* ---------------------------- password hasher -------------------------- *)

get_password_hash(password) == [alg |-> "bcrypt", of |-> password]

verify_password(plain, hashed) == hashed.alg = "bcrypt" /\ hashed.of = plain

(* ------------------------------ token service -------------------------- *)

create_access_token(data, expires_delta) ==
    [kind |-> "access", sub |-> data.sub, email |-> data.email,
     exp |-> now + expires_delta, key |-> SECRET_KEY, parse |-> TRUE]

create_refresh_token(data) ==
    [kind |-> "refresh", sub |-> data.sub, email |-> data.email,
     key |-> SECRET_KEY, parse |-> TRUE]

\* The payload of a token, or NoToken when the token is invalid: the
\* payload cannot be parsed, the signature was not made with the server
\* secret, or the expiry instant has been reached.
verify_token(token) ==
    IF ~token.parse THEN NoToken
    ELSE IF token.key # SECRET_KEY THEN NoToken
    ELSE IF ~(now < token.exp) THEN NoToken
    ELSE token

(* -------------------------------- stores ------------------------------- *)

\* create_engine(settings.DATABASE_URL): the backend the tables live in.
sqlite == settings.DATABASE_URL = "sqlite"

Largest(ids) == IF ids = {} THEN 0 ELSE CHOOSE n \in ids : \A m \in ids : m <= n

\* The id a new row gets from its Integer primary key: the next value of
\* the table's sequence under PostgreSQL, one more than the largest id in
\* the table under SQLite.
NewUserId ==
    IF sqlite THEN Largest({u.id : u \in users}) + 1 ELSE nextUserId

NewTaskId ==
    IF sqlite THEN Largest({t.id : t \in tasks}) + 1 ELSE nextTaskId

\* ForeignKey("users.id", ondelete="CASCADE"): checked by PostgreSQL; SQLite
\* checks foreign keys only on a connection that has issued PRAGMA
\* foreign_keys=ON, which the engine never does.
ForeignKeysEnforced == ~sqlite

\* crud_user.create making the first user of the table an admin.
User_first_admin(id, email, full_name, hashed_password) ==
    [id |-> id, email |-> email, full_name |-> full_name,
     hashed_password |-> hashed_password,
     role |-> IF users = {} THEN "admin" ELSE "user", is_active |-> TRUE]

\* A new user row, with the email, full_name and hashed password
\* crud_user.create gives it; role and is_active take the defaults of their
\* columns.
User(id, email, full_name, hashed_password) ==
    [id |-> id, email |-> email, full_name |-> full_name,
     hashed_password |-> hashed_password,
     role |-> "user", is_active |-> TRUE]

\* A new task row; created_at and updated_at default to the time of the
\* insert, a description the request leaves out to "".
Task(id, title, description, owner_id) ==
    [id |-> id, title |-> title,
     description |-> IF description = Unset THEN "" ELSE description,
     owner_id |-> owner_id, created_at |-> now, updated_at |-> now]

user_get_by_id(user_id) ==
    IF \E u \in users : u.id = user_id
    THEN CHOOSE u \in users : u.id = user_id
    ELSE NoUser

user_get_by_email(email) ==
    IF \E u \in users : u.email = email
    THEN CHOOSE u \in users : u.email = email
    ELSE NoUser

authenticate(email, password) ==
    LET user == user_get_by_email(email)
    IN  IF user = NoUser THEN NoUser
        ELSE IF ~verify_password(password, user.hashed_password) THEN NoUser
        ELSE user

task_get_by_id(task_id) ==
    IF \E t \in tasks : t.id = task_id
    THEN CHOOSE t \in tasks : t.id = task_id
    ELSE NoTask

UserResponse(u) ==
    [id |-> u.id, email |-> u.email, full_name |-> u.full_name,
     role |-> u.role, is_active |-> u.is_active]

(* ------------------------------- requests ------------------------------ *)

IdleReq ==
    [op |-> "none", pc |-> "idle", token |-> NoToken, email |-> "",
     full_name |-> "", password |-> "", task_id |-> 0, title |-> Unset, description |-> Unset,
     skip |-> 0, limit |-> 0, cur |-> NoUser, task |-> NoTask, page |-> {},
     gates |-> <<>>, ran |-> FALSE,
     status |-> 0, detail |-> "", www |-> "", body |-> NoBody]

Free(p) == req[p].pc = "idle"

\* A request may start when its connection is free; when requests are
\* served one at a time, also only when no other request is in flight.
CanStart(p) ==
    /\ Free(p)
    /\ mode = "seq" => p = "p1" /\ \A q \in Procs : Free(q)

Quiet == mode = "seq" => \A q \in Procs : Free(q)

Respond(r, status, detail, www, body) ==
    [r EXCEPT !.pc = "done", !.status = status, !.detail = detail,
              !.www = www, !.body = body]

InternalServerError(r) == Respond(r, 500, "Internal server error", "", NoBody)

InFlight(op) == Cardinality({q \in Procs : req[q].op = op /\ ~Free(q)})

\* The request of p goes on with record r; no response is sent.
Continue(p, r) ==
    /\ req' = [req EXCEPT ![p] = r]
    /\ last' = IdleReq

\* The request of p ends with the answered record r.
Finish(p, r) ==
    /\ req' = [req EXCEPT ![p] = IdleReq]
    /\ last' = r

Step(p, r) == IF r.pc = "done" THEN Finish(p, r) ELSE Continue(p, r)

(* ------------------------- POST /api/v1/auth/register ------------------ *)

\* A users table without the unique index on email.
EmailUnique_absent(email) == TRUE

\* The unique index on users.email.
EmailUnique(email) == ~\E u \in users : u.email = email

\* register, up to the email lookup.
register(r) ==
    LET existing_user == user_get_by_email(r.email)
    IN  IF existing_user # NoUser
        THEN Respond(r, 400, "Email already registered", "", NoBody)
        ELSE [r EXCEPT !.pc = "insert", !.ran = TRUE]

\* register writing the name and the password of the body over the user
\* that holds the email, before it answers 400.
RegisterLookup_overwrite(p, full_names, passwords) ==
    /\ CanStart(p)
    /\ nextUserId + InFlight("register") <= MaxUsers
    /\ \E email \in Emails, full_name \in full_names, password \in passwords :
         LET existing_user == user_get_by_email(email)
         IN  /\ Step(p, register([IdleReq EXCEPT !.op = "register",
                                                 !.email = email,
                                                 !.full_name = full_name,
                                                 !.password = password]))
             /\ users' = IF existing_user = NoUser THEN users
                         ELSE (users \ {existing_user}) \cup
                              {[existing_user EXCEPT
                                  !.full_name = full_name,
                                  !.hashed_password = get_password_hash(password)]}
    /\ UNCHANGED <<tasks, nextUserId, nextTaskId, now, held, mode, settings, deleted>>

RegisterLookup(p, full_names, passwords) ==
    /\ CanStart(p)
    /\ nextUserId + InFlight("register") <= MaxUsers
    /\ \E email \in Emails, full_name \in full_names, password \in passwords :
         Step(p, register([IdleReq EXCEPT !.op = "register", !.email = email,
                                          !.full_name = full_name,
                                          !.password = password]))
    /\ UNCHANGED <<users, tasks, nextUserId, nextTaskId, now, held, mode, settings, deleted>>

\* register, from crud_user.create on.
RegisterInsert(p) ==
    /\ req[p].op = "register" /\ req[p].pc = "insert"
    /\ LET r == req[p]
           db_user == User(NewUserId, r.email, r.full_name,
                           get_password_hash(r.password))
       IN  IF EmailUnique(r.email)
           THEN /\ users' = users \cup {db_user}
                /\ nextUserId' = nextUserId + 1
                /\ Finish(p, Respond(r, 201, "", "", UserResponse(db_user)))
           ELSE /\ Finish(p, InternalServerError(r))
                /\ UNCHANGED <<users, nextUserId>>
    /\ UNCHANGED <<tasks, nextTaskId, now, held, mode, settings, deleted>>

(* --------------------------- POST /api/v1/auth/login ------------------- *)

\* login checking is_active before the password.
login_active_first(r) ==
    LET found == user_get_by_email(r.email)
        user == authenticate(r.email, r.password)
        data == [sub |-> user.id, email |-> user.email]
    IN  IF found # NoUser /\ ~found.is_active
        THEN Respond(r, 400, "User account is inactive", "", NoBody)
        ELSE IF user = NoUser
        THEN Respond(r, 401, "Invalid email or password", "Bearer", NoBody)
        ELSE Respond([r EXCEPT !.cur = user], 200, "", "",
                     [access_token |-> create_access_token(data, 30),
                      refresh_token |-> create_refresh_token(data),
                      token_type |-> "bearer",
                      user |-> UserResponse(user)])

login(r) ==
    LET user == authenticate(r.email, r.password)
        data == [sub |-> user.id, email |-> user.email]
        access_token == create_access_token(data, 30)
        refresh_token == create_refresh_token(data)
    IN  IF user = NoUser
        THEN Respond(r, 401, "Invalid email or password", "Bearer", NoBody)
        ELSE IF ~user.is_active
        THEN Respond(r, 400, "User account is inactive", "", NoBody)
        ELSE Respond([r EXCEPT !.cur = user], 200, "", "",
                     [access_token |-> access_token,
                      refresh_token |-> refresh_token,
                      token_type |-> "bearer",
                      user |-> UserResponse(user)])

Login(p) ==
    /\ CanStart(p)
    /\ \E email \in Emails, password \in Passwords :
         LET r == login([IdleReq EXCEPT !.op = "login", !.email = email,
                                        !.password = password, !.ran = TRUE])
         IN  /\ Finish(p, r)
             /\ held' = IF r.status = 200 THEN r.body.access_token ELSE held
    /\ UNCHANGED <<users, tasks, nextUserId, nextTaskId, now, mode, settings, deleted>>

(* ------------------------ identity resolution -------------------------- *)

CredentialsException(r, gates) ==
    Respond([r EXCEPT !.gates = gates], 401,
            "Could not validate credentials", "Bearer", NoBody)

\* OAuth2PasswordBearer: a request without a bearer token is answered 401.
oauth2_scheme(r) ==
    IF r.token = NoToken
    THEN Respond(r, 401, "Not authenticated", "Bearer", NoBody)
    ELSE r

\* get_current_user taking the user from the claims of the token when the
\* store has no such user.
get_current_user_from_claims(r) ==
    LET payload == verify_token(r.token)
        user_id == payload.sub
        user == user_get_by_id(user_id)
    IN  IF payload = NoToken THEN CredentialsException(r, <<>>)
        ELSE IF user_id = NoSub THEN CredentialsException(r, <<"token">>)
        ELSE IF user = NoUser
        THEN [r EXCEPT !.cur = User(user_id, payload.email, "", get_password_hash("")),
                       !.gates = <<"token", "sub", "user">>]
        ELSE [r EXCEPT !.cur = user, !.gates = <<"token", "sub", "user">>]

\* get_current_user reading the claims of the token without verifying it.
get_current_user_unverified(r) ==
    LET payload == IF r.token.parse THEN r.token ELSE NoToken
        user_id == payload.sub
        user == user_get_by_id(user_id)
    IN  IF payload = NoToken THEN CredentialsException(r, <<>>)
        ELSE IF user_id = NoSub THEN CredentialsException(r, <<"token">>)
        ELSE IF user = NoUser THEN CredentialsException(r, <<"token", "sub">>)
        ELSE [r EXCEPT !.cur = user, !.gates = <<"token", "sub", "user">>]

\* get_current_user answering 404 for a subject that matches no user.
get_current_user_leaky(r) ==
    LET payload == verify_token(r.token)
        user_id == payload.sub
        user == user_get_by_id(user_id)
    IN  IF payload = NoToken THEN CredentialsException(r, <<>>)
        ELSE IF user_id = NoSub THEN CredentialsException(r, <<"token">>)
        ELSE IF user = NoUser
        THEN Respond([r EXCEPT !.gates = <<"token", "sub">>], 404,
                     "User not found", "", NoBody)
        ELSE [r EXCEPT !.cur = user, !.gates = <<"token", "sub", "user">>]

get_current_user(r) ==
    LET payload == verify_token(r.token)
        user_id == payload.sub
        user == user_get_by_id(user_id)
    IN  IF payload = NoToken THEN CredentialsException(r, <<>>)
        ELSE IF user_id = NoSub THEN CredentialsException(r, <<"token">>)
        ELSE IF user = NoUser THEN CredentialsException(r, <<"token", "sub">>)
        ELSE [r EXCEPT !.cur = user, !.gates = <<"token", "sub", "user">>]

\* get_current_active_user without the is_active check.
get_current_active_user_unchecked(r) ==
    LET u == get_current_user(r)
    IN  IF u.pc = "done" THEN u
        ELSE [u EXCEPT !.gates = Append(u.gates, "active"), !.pc = "body"]

get_current_active_user(r) ==
    LET u == get_current_user(r)
    IN  IF u.pc = "done" THEN u
        ELSE IF ~u.cur.is_active
        THEN Respond(u, 400, "Inactive user", "", NoBody)
        ELSE [u EXCEPT !.gates = Append(u.gates, "active"), !.pc = "body"]

ResolveIdentity(r) ==
    LET t == oauth2_scheme(r)
    IN  IF t.pc = "done" THEN t ELSE get_current_active_user(t)

\* The tokens a client can present: none, the access token it was given at
\* login, and tokens the server did not mint: signed with another secret,
\* unparseable, or carrying no subject.
ForgedToken ==
    [kind |-> "access", sub |-> 1, email |-> "a@x.com",
     exp |-> MaxTime + TickMinutes + ACCESS_TOKEN_EXPIRE_MINUTES, key |-> OtherSecret,
     parse |-> TRUE]

GarbageToken == [kind |-> "garbage", parse |-> FALSE]

NoSubToken ==
    [kind |-> "access", sub |-> NoSub, email |-> "a@x.com",
     exp |-> MaxTime + TickMinutes + ACCESS_TOKEN_EXPIRE_MINUTES, key |-> SECRET_KEY,
     parse |-> TRUE]

PresentedTokens == {NoToken, held, ForgedToken, GarbageToken, NoSubToken}

TaskIds == 1..MaxTasks

\* The requests to the protected routes, as they arrive: the route, the
\* bearer token and the task id of the path.
ProtectedRequests ==
    LET base(op, token) == [IdleReq EXCEPT !.op = op, !.token = token]
    IN  UNION {
          {base(op, token) : op \in {"me", "create_task", "get_tasks"}}
          \cup {[base(op, token) EXCEPT !.task_id = id]
                  : op \in {"get_task", "update_task", "delete_task"},
                    id \in TaskIds}
          : token \in PresentedTokens }

\* A protected request arrives and its identity is resolved.
Authenticate(p, routes) ==
    /\ CanStart(p)
    /\ \E r \in ProtectedRequests :
         /\ r.op \in routes
         /\ r.op = "create_task" => nextTaskId + InFlight("create_task") <= MaxTasks
         /\ Step(p, ResolveIdentity(r))
    /\ UNCHANGED <<users, tasks, nextUserId, nextTaskId, now, held, mode, settings, deleted>>

(* ---------------------------- GET /api/v1/auth/me ---------------------- *)

\* get_me returning the first user of the table instead of the caller.
get_me_first_user(r) ==
    Respond([r EXCEPT !.ran = TRUE], 200, "", "",
            UserResponse(CHOOSE u \in users : \A v \in users : u.id <= v.id))

get_me(r) == Respond([r EXCEPT !.ran = TRUE], 200, "", "", UserResponse(r.cur))

GetMe(p) ==
    /\ req[p].op = "me" /\ req[p].pc = "body"
    /\ Finish(p, get_me(req[p]))
    /\ UNCHANGED <<users, tasks, nextUserId, nextTaskId, now, held, mode, settings, deleted>>

(* ------------------------------ task schemas --------------------------- *)

MinTitleLength == 1
MaxTitleLength == 255
MaxDescriptionLength == 5000

RECURSIVE Repeat(_, _)
Repeat(s, n) ==
    IF n = 0 THEN ""
    ELSE LET half == Repeat(s, n \div 2)
         IN  IF n % 2 = 0 THEN half \o half ELSE half \o half \o s

\* Request bodies that are out of the schema or at its edge: an empty
\* title, titles of the largest length and of one more.
EmptyTitle == ""
LongestTitle == Repeat("x", MaxTitleLength)
TooLongTitle == Repeat("x", MaxTitleLength + 1)

\* TaskCreate: title is a required str of 1 to 255 characters, description
\* an optional str of at most 5000.
TaskCreate(title, description) ==
    /\ title \notin {Unset, Null}
    /\ Len(title) >= MinTitleLength /\ Len(title) <= MaxTitleLength
    /\ description \in {Unset, Null} \/ Len(description) <= MaxDescriptionLength

\* TaskUpdate: title is an Optional[str] of 1 to 255 characters, description
\* an Optional[str] of at most 5000; either may be left out or be null.
TaskUpdate(title, description) ==
    /\ title \in {Unset, Null}
         \/ (Len(title) >= MinTitleLength /\ Len(title) <= MaxTitleLength)
    /\ description \in {Unset, Null} \/ Len(description) <= MaxDescriptionLength

\* validation_exception_handler
ValidationError(r) == Respond(r, 422, "Validation error", "", NoBody)

(* ----------------------------- POST /api/v1/tasks ---------------------- *)

\* The foreign key tasks.owner_id -> users.id.
OwnerExists(owner_id) == \E u \in users : u.id = owner_id

\* create_task giving the new task to the first user of the table.
create_task_first_owner(r) ==
    Task(NewTaskId, r.title, r.description,
         (CHOOSE u \in users : \A v \in users : u.id <= v.id).id)

\* The row create_task has crud_task.create insert.
create_task(r) == Task(NewTaskId, r.title, r.description, r.cur.id)

CreateTask(p, titles, descriptions) ==
    /\ req[p].op = "create_task" /\ req[p].pc = "body"
    /\ \E title \in titles, description \in descriptions :
         LET v == [req[p] EXCEPT !.title = title, !.description = description]
             r == [v EXCEPT !.ran = TRUE]
             db_task == create_task(r)
         IN  IF ~TaskCreate(title, description)
             THEN /\ Finish(p, ValidationError(v))
                  /\ UNCHANGED <<tasks, nextTaskId>>
             ELSE IF ForeignKeysEnforced => OwnerExists(db_task.owner_id)
             THEN /\ tasks' = tasks \cup {db_task}
                  /\ nextTaskId' = nextTaskId + 1
                  /\ Finish(p, Respond(r, 201, "", "", db_task))
             ELSE /\ Finish(p, InternalServerError(r))
                  /\ UNCHANGED <<tasks, nextTaskId>>
    /\ UNCHANGED <<users, nextUserId, now, held, mode, settings, deleted>>

(* ------------------------------ GET /api/v1/tasks ---------------------- *)

Min(a, b) == IF a < b THEN a ELSE b
Max(a, b) == IF a < b THEN b ELSE a

\* query.offset(skip).limit(limit).all() with no ORDER BY: the rows come in
\* an order the database chooses, so any selection of the right size.
OffsetLimit(rows, skip, limit) ==
    {S \in SUBSET rows :
        Cardinality(S) = Min(limit, Max(0, Cardinality(rows) - skip))}

\* get_user_tasks without its owner filter.
get_user_tasks_unfiltered(owner_id, skip, limit) ==
    OffsetLimit(tasks, skip, limit)

get_user_tasks(owner_id, skip, limit) ==
    OffsetLimit({t \in tasks : t.owner_id = owner_id}, skip, limit)

get_all(skip, limit) == OffsetLimit(tasks, skip, limit)

get_user_task_count(owner_id) ==
    Cardinality({t \in tasks : t.owner_id = owner_id})

\* get_tasks, the page query.
GetTasksPage(p) ==
    /\ req[p].op = "get_tasks" /\ req[p].pc = "body"
    /\ \E skip \in 0..1, limit \in {1, DefaultLimit} :
         LET r == [req[p] EXCEPT !.skip = skip, !.limit = limit]
         IN  \E page \in (IF r.cur.role = "admin"
                          THEN get_all(r.skip, r.limit)
                          ELSE get_user_tasks(r.cur.id, r.skip, r.limit)) :
               Continue(p, [r EXCEPT !.page = page, !.pc = "count", !.ran = TRUE])
    /\ UNCHANGED <<users, tasks, nextUserId, nextTaskId, now, held, mode, settings, deleted>>

\* get_tasks, the count query and the response.
GetTasksCount(p) ==
    /\ req[p].op = "get_tasks" /\ req[p].pc = "count"
    /\ LET r == req[p]
           total == IF r.cur.role = "admin"
                    THEN Cardinality(tasks)
                    ELSE get_user_task_count(r.cur.id)
       IN  Finish(p, Respond(r, 200, "", "", [tasks |-> r.page, total |-> total]))
    /\ UNCHANGED <<users, tasks, nextUserId, nextTaskId, now, held, mode, settings, deleted>>

(* ------------------------- GET /api/v1/tasks/{task_id} ----------------- *)

NotFound(r) == Respond(r, 404, "Task not found", "", NoBody)

Forbidden(r) == Respond(r, 403, "Not enough permissions", "", NoBody)

get_task_denied(task, current_user) ==
    task.owner_id # current_user.id /\ current_user.role # "admin"

\* get_task answering a non-admin 403 for a task that does not exist.
get_task_hide_missing(r) ==
    LET task == task_get_by_id(r.task_id)
        s == [r EXCEPT !.ran = TRUE, !.task = task]
    IN  IF task = NoTask /\ r.cur.role # "admin" THEN Forbidden(s)
        ELSE IF task = NoTask THEN NotFound(s)
        ELSE IF get_task_denied(task, r.cur) THEN Forbidden(s)
        ELSE Respond(s, 200, "", "", task)

get_task(r) ==
    LET task == task_get_by_id(r.task_id)
        s == [r EXCEPT !.ran = TRUE, !.task = task]
    IN  IF task = NoTask THEN NotFound(s)
        ELSE IF get_task_denied(task, r.cur) THEN Forbidden(s)
        ELSE Respond(s, 200, "", "", task)

GetTask(p) ==
    /\ req[p].op = "get_task" /\ req[p].pc = "body"
    /\ Finish(p, get_task(req[p]))
    /\ UNCHANGED <<users, tasks, nextUserId, nextTaskId, now, held, mode, settings, deleted>>

(* ------------------------- PUT /api/v1/tasks/{task_id} ----------------- *)

update_task_denied(task, current_user) ==
    task.owner_id # current_user.id /\ current_user.role # "admin"

\* update_task, up to the ownership check.
update_task(r) ==
    LET task == task_get_by_id(r.task_id)
        s == [r EXCEPT !.ran = TRUE, !.task = task]
    IN  IF task = NoTask THEN NotFound(s)
        ELSE IF update_task_denied(task, r.cur) THEN Forbidden(s)
        ELSE [s EXCEPT !.pc = "write"]

UpdateTaskFetch(p, titles, descriptions) ==
    /\ req[p].op = "update_task" /\ req[p].pc = "body"
    /\ \E title \in titles, description \in descriptions :
         LET v == [req[p] EXCEPT !.title = title, !.description = description]
         IN  IF ~TaskUpdate(title, description)
             THEN Finish(p, ValidationError(v))
             ELSE Step(p, update_task(v))
    /\ UNCHANGED <<users, tasks, nextUserId, nextTaskId, now, held, mode, settings, deleted>>

\* crud_task.update replacing the row by the body: a field the body leaves
\* out is reset to its default.
crud_task_update_replace(db_task, title, description) ==
    LET row == task_get_by_id(db_task.id)
    IN  IF row = NoTask THEN NoTask
        ELSE [row EXCEPT
                !.title = IF title # Unset THEN title ELSE @,
                !.description = IF description # Unset THEN description ELSE "",
                !.updated_at = now]

\* crud_task.update on the loaded db_task: the fields of the body (which a
\* null is one of) that differ from the loaded values are written to the
\* row, and updated_at with them; the row as it is after the commit is
\* returned.  NoTask when the row is gone.
crud_task_update(db_task, title, description) ==
    LET row == task_get_by_id(db_task.id)
        set_title == title # Unset /\ title # db_task.title
        set_description == description # Unset /\ description # db_task.description
    IN  IF row = NoTask THEN NoTask
        ELSE [row EXCEPT
                !.title = IF set_title THEN title ELSE @,
                !.description = IF set_description THEN description ELSE @,
                !.updated_at = IF set_title \/ set_description THEN now ELSE @]

\* Column(String(255), nullable=False): the store refuses a row whose title
\* is NULL.
TitleNotNull(task) == task.title # Null

\* update_task, from crud_task.update on.
UpdateTaskWrite(p) ==
    /\ req[p].op = "update_task" /\ req[p].pc = "write"
    /\ LET r == req[p]
           task == crud_task_update(r.task, r.title, r.description)
       IN  IF task = NoTask \/ ~TitleNotNull(task)
           THEN /\ Finish(p, InternalServerError(r))
                /\ UNCHANGED tasks
           ELSE /\ tasks' = {t \in tasks : t.id # task.id} \cup {task}
                /\ Finish(p, Respond(r, 200, "", "", task))
    /\ UNCHANGED <<users, nextUserId, nextTaskId, now, held, mode, settings, deleted>>

(* ------------------------ DELETE /api/v1/tasks/{task_id} --------------- *)

\* The ownership check of delete_task with "or" for "and".
delete_task_denied_or(task, current_user) ==
    task.owner_id # current_user.id \/ current_user.role # "admin"

delete_task_denied(task, current_user) ==
    task.owner_id # current_user.id /\ current_user.role # "admin"

\* delete_task, up to the ownership check.
delete_task(r) ==
    LET task == task_get_by_id(r.task_id)
        s == [r EXCEPT !.ran = TRUE, !.task = task]
    IN  IF task = NoTask THEN NotFound(s)
        ELSE IF delete_task_denied(task, r.cur) THEN Forbidden(s)
        ELSE [s EXCEPT !.pc = "write"]

DeleteTaskFetch(p) ==
    /\ req[p].op = "delete_task" /\ req[p].pc = "body"
    /\ Step(p, delete_task(req[p]))
    /\ UNCHANGED <<users, tasks, nextUserId, nextTaskId, now, held, mode, settings, deleted>>

crud_task_delete(task_id) == {t \in tasks : t.id # task_id}

\* delete_task, from crud_task.delete on.
DeleteTaskWrite(p) ==
    /\ req[p].op = "delete_task" /\ req[p].pc = "write"
    /\ tasks' = crud_task_delete(req[p].task_id)
    /\ deleted' = deleted \cup {req[p].task_id}
    /\ Finish(p, Respond(req[p], 204, "", "", NoBody))
    /\ UNCHANGED <<users, nextUserId, nextTaskId, now, held, mode, settings>>

(* ------------------------- store-side operations ----------------------- *)

Delivered == last' = IdleReq

Tick ==
    /\ Quiet
    /\ now < MaxTime
    /\ now' = now + TickMinutes
    /\ Delivered
    /\ UNCHANGED <<users, tasks, nextUserId, nextTaskId, held, req, mode, settings, deleted>>

\* crud_user.update with a new password.
UserUpdate(id, password) ==
    /\ Quiet
    /\ \E db_user \in users :
         /\ db_user.id = id
         /\ db_user.hashed_password # get_password_hash(password)
         /\ users' = (users \ {db_user}) \cup
                {[db_user EXCEPT !.hashed_password = get_password_hash(password)]}
    /\ Delivered
    /\ UNCHANGED <<tasks, nextUserId, nextTaskId, now, held, req, mode, settings, deleted>>

\* crud_user.delete: the user goes, and with it the tasks it owns.
UserDelete(id) ==
    /\ Quiet
    /\ \E db_user \in users :
         /\ db_user.id = id
         /\ users' = users \ {db_user}
         /\ tasks' = {t \in tasks : t.owner_id # id}
    /\ Delivered
    /\ UNCHANGED <<nextUserId, nextTaskId, now, held, req, mode, settings, deleted>>

\* An operator sets the role column of a user row.
StoreSetRole(id, role) ==
    /\ Quiet
    /\ \E u \in users :
         /\ u.id = id /\ u.role # role
         /\ users' = (users \ {u}) \cup {[u EXCEPT !.role = role]}
    /\ Delivered
    /\ UNCHANGED <<tasks, nextUserId, nextTaskId, now, held, req, mode, settings, deleted>>

\* An operator sets the is_active column of a user row.
StoreSetActive(id, is_active) ==
    /\ Quiet
    /\ \E u \in users :
         /\ u.id = id /\ u.is_active # is_active
         /\ users' = (users \ {u}) \cup {[u EXCEPT !.is_active = is_active]}
    /\ Delivered
    /\ UNCHANGED <<tasks, nextUserId, nextTaskId, now, held, req, mode, settings, deleted>>

UserIds == 1..MaxUsers

(* ------------------------------ specification -------------------------- *)

Init0 ==
    /\ users = {}
    /\ tasks = {}
    /\ nextUserId = 1
    /\ nextTaskId = 1
    /\ now = 0
    /\ held = NoToken
    /\ req = [p \in Procs |-> IdleReq]
    /\ last = IdleReq
    /\ deleted = {}

Init == Init0 /\ mode = "seq" /\ settings = DefaultSettings

InitConc == Init0 /\ mode = "conc" /\ settings = DefaultSettings

Routes == {"me", "create_task", "get_tasks", "get_task", "update_task", "delete_task"}

Next ==
    \/ \E p \in Procs : RegisterLookup(p, FullNames, RegisterPasswords)
    \/ \E p \in Procs : RegisterInsert(p)
    \/ \E p \in Procs : Login(p)
    \/ \E p \in Procs : Authenticate(p, Routes)
    \/ \E p \in Procs : GetMe(p)
    \/ \E p \in Procs : CreateTask(p, Titles, {""} \cup Descriptions)
    \/ \E p \in Procs : GetTasksPage(p)
    \/ \E p \in Procs : GetTasksCount(p)
    \/ \E p \in Procs : GetTask(p)
    \/ \E p \in Procs : UpdateTaskFetch(p, {Unset} \cup Titles, {Unset} \cup Descriptions)
    \/ \E p \in Procs : UpdateTaskWrite(p)
    \/ \E p \in Procs : DeleteTaskFetch(p)
    \/ \E p \in Procs : DeleteTaskWrite(p)
    \/ \E id \in UserIds : UserDelete(id)
    \/ \E id \in UserIds, role \in UserRole : StoreSetRole(id, role)
    \/ \E id \in UserIds, is_active \in BOOLEAN : StoreSetActive(id, is_active)

Spec == Init /\ [][Next]_vars

NextAuth ==
    \/ \E p \in Procs : RegisterLookup(p, FullNames, RegisterPasswords)
    \/ \E p \in Procs : RegisterInsert(p)
    \/ \E p \in Procs : Login(p)
    \/ \E p \in Procs : Authenticate(p, {"me"})
    \/ \E p \in Procs : GetMe(p)
    \/ Tick
    \/ \E id \in UserIds, password \in Passwords : UserUpdate(id, password)
    \/ \E id \in UserIds : UserDelete(id)
    \/ \E id \in UserIds, role \in UserRole : StoreSetRole(id, role)
    \/ \E id \in UserIds, is_active \in BOOLEAN : StoreSetActive(id, is_active)

SpecAuth == Init /\ [][NextAuth]_vars

NextConc ==
    \/ \E p \in Procs : RegisterLookup(p, FullNames, RegisterPasswords)
    \/ \E p \in Procs : RegisterInsert(p)
    \/ \E p \in Procs : Login(p)
    \/ \E id \in UserIds, password \in Passwords : UserUpdate(id, password)
    \/ \E id \in UserIds : UserDelete(id)

SpecConc == InitConc /\ [][NextConc]_vars

\* The task routes on either backend, requests served one at a time.
InitStore ==
    /\ Init0 /\ mode = "seq"
    /\ settings \in {c \in LoadableSettings :
                       c.ACCESS_TOKEN_EXPIRE_MINUTES = ACCESS_TOKEN_EXPIRE_MINUTES}

TaskSlice == {"create_task", "get_tasks", "get_task", "update_task", "delete_task"}

NextStore ==
    \/ \E p \in Procs : RegisterLookup(p, FullNames, RegisterPasswords)
    \/ \E p \in Procs : RegisterInsert(p)
    \/ \E p \in Procs : Login(p)
    \/ \E p \in Procs : Authenticate(p, TaskSlice)
    \/ \E p \in Procs : CreateTask(p, Titles, {""} \cup Descriptions)
    \/ \E p \in Procs : GetTasksPage(p)
    \/ \E p \in Procs : GetTasksCount(p)
    \/ \E p \in Procs : GetTask(p)
    \/ \E p \in Procs : UpdateTaskFetch(p, {Unset} \cup Titles, {Unset} \cup Descriptions)
    \/ \E p \in Procs : UpdateTaskWrite(p)
    \/ \E p \in Procs : DeleteTaskFetch(p)
    \/ \E p \in Procs : DeleteTaskWrite(p)
    \/ \E id \in UserIds : UserDelete(id)
    \/ \E id \in UserIds, role \in UserRole : StoreSetRole(id, role)

SpecStore == InitStore /\ [][NextStore]_vars

\* The auth routes under every access-token TTL the environment can set.
InitSettings ==
    /\ Init0 /\ mode = "seq"
    /\ settings \in {c \in LoadableSettings : c.DATABASE_URL = DATABASE_URL}

SpecSettings == InitSettings /\ [][NextAuth]_vars

\* Task creation and update with request bodies in and out of the schemas.
CreateTitles == {Unset, Null, EmptyTitle, TooLongTitle, LongestTitle, "T1"}
UpdateTitles == {Unset, Null, EmptyTitle, TooLongTitle, "T2"}
UpdateDescriptions == {Unset, Null, "D1"}

NextInput ==
    \/ \E p \in Procs : RegisterLookup(p, FullNames, RegisterPasswords)
    \/ \E p \in Procs : RegisterInsert(p)
    \/ \E p \in Procs : Login(p)
    \/ \E p \in Procs : Authenticate(p, {"create_task", "update_task"})
    \/ \E p \in Procs : CreateTask(p, CreateTitles, {Unset})
    \/ \E p \in Procs : UpdateTaskFetch(p, UpdateTitles, UpdateDescriptions)
    \/ \E p \in Procs : UpdateTaskWrite(p)

SpecInput == Init /\ [][NextInput]_vars

\* Task creation and update with the clock advancing.
NextFrame ==
    \/ \E p \in Procs : RegisterLookup(p, FullNames, RegisterPasswords)
    \/ \E p \in Procs : RegisterInsert(p)
    \/ \E p \in Procs : Login(p)
    \/ \E p \in Procs : Authenticate(p, {"create_task", "update_task"})
    \/ \E p \in Procs : CreateTask(p, {"T1"}, {Unset})
    \/ \E p \in Procs : UpdateTaskFetch(p, {Unset, "T2"}, {Unset, "D1"})
    \/ \E p \in Procs : UpdateTaskWrite(p)
    \/ Tick

SpecFrame == Init /\ [][NextFrame]_vars

\* Task creations and updates, their steps interleaving.
NextUpdates ==
    \/ \E p \in Procs : RegisterLookup(p, FullNames, RegisterPasswords)
    \/ \E p \in Procs : RegisterInsert(p)
    \/ \E p \in Procs : Login(p)
    \/ \E p \in Procs : Authenticate(p, {"create_task", "update_task"})
    \/ \E p \in Procs : CreateTask(p, Titles, {Unset})
    \/ \E p \in Procs : UpdateTaskFetch(p, {Unset} \cup Titles, {Unset})
    \/ \E p \in Procs : UpdateTaskWrite(p)

SpecUpdates == InitConc /\ [][NextUpdates]_vars

\* Task lists, creations and deletions, their steps interleaving.
NextLists ==
    \/ \E p \in Procs : RegisterLookup(p, FullNames, RegisterPasswords)
    \/ \E p \in Procs : RegisterInsert(p)
    \/ \E p \in Procs : Login(p)
    \/ \E p \in Procs : Authenticate(p, {"create_task", "get_tasks", "delete_task"})
    \/ \E p \in Procs : CreateTask(p, Titles, {Unset})
    \/ \E p \in Procs : GetTasksPage(p)
    \/ \E p \in Procs : GetTasksCount(p)
    \/ \E p \in Procs : DeleteTaskFetch(p)
    \/ \E p \in Procs : DeleteTaskWrite(p)

SpecLists == InitConc /\ [][NextLists]_vars

\* Task creations and user deletions on either backend, their steps
\* interleaving.
InitOwners ==
    /\ Init0 /\ mode = "conc"
    /\ settings \in {c \in LoadableSettings :
                       c.ACCESS_TOKEN_EXPIRE_MINUTES = ACCESS_TOKEN_EXPIRE_MINUTES}

NextOwners ==
    \/ \E p \in Procs : RegisterLookup(p, FullNames, RegisterPasswords)
    \/ \E p \in Procs : RegisterInsert(p)
    \/ \E p \in Procs : Login(p)
    \/ \E p \in Procs : Authenticate(p, {"create_task"})
    \/ \E p \in Procs : CreateTask(p, Titles, {Unset})
    \/ \E id \in UserIds : UserDelete(id)

SpecOwners == InitOwners /\ [][NextOwners]_vars

\* Registrations under differing names and passwords, logins and the task
\* writes, requests served one at a time, with users being deactivated and
\* reactivated between them.
RejectNames == {"Ann", "Bob"}

NextReject ==
    \/ \E p \in Procs : RegisterLookup(p, RejectNames, Passwords)
    \/ \E p \in Procs : RegisterInsert(p)
    \/ \E p \in Procs : Login(p)
    \/ \E p \in Procs : Authenticate(p, {"create_task", "update_task", "delete_task"})
    \/ \E p \in Procs : CreateTask(p, {"T1"}, {Unset})
    \/ \E p \in Procs : UpdateTaskFetch(p, {"T2"}, {Unset})
    \/ \E p \in Procs : UpdateTaskWrite(p)
    \/ \E p \in Procs : DeleteTaskFetch(p)
    \/ \E p \in Procs : DeleteTaskWrite(p)
    \/ \E id \in UserIds, is_active \in BOOLEAN : StoreSetActive(id, is_active)

SpecReject == Init /\ [][NextReject]_vars

(* ------------------------------- properties ---------------------------- *)

TaskRoutes == {"get_task", "update_task", "delete_task"}

\* The status each task operation answers when it is performed.
Performed(op) ==
    CASE op = "get_task" -> 200
      [] op = "update_task" -> 200
      [] op = "delete_task" -> 204

\* C1: a GET, PUT or DELETE on an existing task by an active authenticated
\* user is answered 403 exactly when the user is neither an admin nor the
\* owner of the task; otherwise it is performed (200, 200, 204): the task is
\* returned, written or removed.  A refused request returns no task and
\* leaves the task in the store as it was.
C1_OwnerOrAdmin ==
    (last.op \in TaskRoutes /\ last.ran /\ last.task # NoTask) =>
        LET U == user_get_by_id(last.token.sub)
            T == last.task
            denied == U.role # "admin" /\ U.id # T.owner_id
        IN  /\ last.status = 403 <=> denied
            /\ ~denied => last.status = Performed(last.op)
            /\ denied => last.body = NoBody /\ T \in tasks
            /\ (~denied /\ last.op = "get_task") => last.body = T /\ T \in tasks
            /\ (~denied /\ last.op = "update_task") =>
                   /\ last.body \in tasks
                   /\ last.body.id = T.id
                   /\ last.title # Unset => last.body.title = last.title
            /\ (~denied /\ last.op = "delete_task") =>
                   task_get_by_id(T.id) = NoTask

\* A non-admin is refused the deletion of a task of another user, and the
\* task is still there.
C1_Witness ==
    /\ last.op = "delete_task" /\ last.status = 403
    /\ last.cur.role = "user" /\ last.task.owner_id # last.cur.id
    /\ last.task \in tasks

\* The tasks a list request of user u ranges over.
Scope(u) ==
    IF u.role = "admin" THEN tasks ELSE {t \in tasks : t.owner_id = u.id}

\* C2 as stated: every list response holds exactly the tasks in the
\* caller's scope (the N tasks the caller owns, or all N+M for an admin)
\* and total is their number.
C2_ListsWholeScope ==
    (last.op = "get_tasks" /\ last.status = 200) =>
        LET U == user_get_by_id(last.token.sub)
        IN  /\ last.body.tasks = Scope(U)
            /\ last.body.total = Cardinality(Scope(U))

\* C2 as amended: a list response holds min(limit, max(0, N - skip)) tasks
\* of the caller's scope and none outside it, hence all of them when
\* skip = 0 and limit >= N; total is the size of the scope whatever skip
\* and limit are.
C2_ListsPageOfScope ==
    (last.op = "get_tasks" /\ last.status = 200) =>
        LET U == user_get_by_id(last.token.sub)
            N == Cardinality(Scope(U))
        IN  /\ last.body.tasks \subseteq Scope(U)
            /\ Cardinality(last.body.tasks) = Min(last.limit, Max(0, N - last.skip))
            /\ (last.skip = 0 /\ last.limit >= N) => last.body.tasks = Scope(U)
            /\ last.body.total = N

\* A non-admin owning one task, while another user owns one, lists with the
\* default skip and limit and gets its own task and total 1.
C2_Witness ==
    /\ last.op = "get_tasks" /\ last.status = 200
    /\ last.cur.role = "user"
    /\ last.skip = 0 /\ last.limit = DefaultLimit
    /\ Cardinality(tasks) = 2
    /\ last.body.total = 1
    /\ Cardinality(last.body.tasks) = 1

\* C10: existence is checked before ownership, identity before both.  A
\* GET, PUT or DELETE whose identity was resolved is answered 404 when no
\* task has the id, whoever calls; 404 is answered only then; 403 only for
\* a task in the store that another user owns; and a request whose token
\* does not verify is answered 401 whether or not the task exists.
C10_ExistenceBeforeOwnership ==
    (last.op \in TaskRoutes) =>
        /\ (last.ran /\ last.task = NoTask) => last.status = 404
        /\ last.status = 404 =>
               last.ran /\ task_get_by_id(last.task_id) = NoTask
        /\ last.status = 403 =>
               /\ last.ran
               /\ task_get_by_id(last.task_id) # NoTask
               /\ task_get_by_id(last.task_id).owner_id # last.cur.id
        /\ (last.token = NoToken \/ verify_token(last.token) = NoToken) =>
               last.status = 401 /\ ~last.ran

\* An admin asks for a task that does not exist and is answered 404.
C10_Witness ==
    /\ last.op \in TaskRoutes /\ last.status = 404
    /\ last.cur.role = "admin"

\* The checks of identity resolution, in their order.
AllGates == <<"token", "sub", "user", "active">>

\* The status identity resolution answers for the token of request r in
\* the current store, 0 when it lets the request through.
GateStatus(r) ==
    IF r.token = NoToken \/ verify_token(r.token) = NoToken THEN 401
    ELSE IF r.token.sub = NoSub THEN 401
    ELSE IF user_get_by_id(r.token.sub) = NoUser THEN 401
    ELSE IF ~user_get_by_id(r.token.sub).is_active THEN 400
    ELSE 0

\* C5: the body of a protected endpoint runs only for a request that
\* passed token verification, the subject check, the user lookup and the
\* is_active check, in this order; a request failing one of the first three
\* is answered 401, one failing the fourth 400, and its endpoint body does
\* not run.
C5_GateOrder ==
    /\ \A p \in Procs :
         (req[p].op \in Routes /\ req[p].pc # "idle") =>
             req[p].gates = AllGates
    /\ (last.op \in Routes) =>
         /\ last.ran => last.gates = AllGates /\ GateStatus(last) = 0
         /\ GateStatus(last) # 0 =>
                /\ last.status = GateStatus(last)
                /\ ~last.ran
                /\ last.body = NoBody
         /\ \E n \in 0..4 : last.gates = SubSeq(AllGates, 1, n)
         /\ (last.status = 400 /\ ~last.ran) =>
                last.gates = SubSeq(AllGates, 1, 3)

\* A request with a verifying token of an inactive user is answered 400
\* before its endpoint runs.
C5_Witness ==
    /\ last.op \in Routes /\ last.status = 400 /\ ~last.ran
    /\ last.gates = <<"token", "sub", "user">>

\* C6: a request bearing a token minted at login is decided on the user
\* row as it is when the request is served: 401 when the row is gone, 400
\* when is_active is cleared, and otherwise the resolved user is the live
\* row, whose role decides the ownership check and the scope of a list.
C6_LiveUser ==
    (last.op \in Routes /\ last.token # NoToken
       /\ verify_token(last.token) # NoToken /\ last.token.sub # NoSub) =>
        LET live == user_get_by_id(last.token.sub)
        IN  /\ live = NoUser => last.status = 401
            /\ (live # NoUser /\ ~live.is_active) => last.status = 400
            /\ (live # NoUser /\ live.is_active) =>
                   /\ last.cur = live
                   /\ (last.op \in TaskRoutes /\ last.task # NoTask) =>
                          (last.status = 403 <=>
                             (live.role # "admin" /\ live.id # last.task.owner_id))
                   /\ last.op = "get_tasks" =>
                          /\ last.body.tasks \subseteq Scope(live)
                          /\ last.body.total = Cardinality(Scope(live))

\* The token a user was given at login is presented after the user's
\* is_active flag was cleared, and the request is answered 400.
C6_Witness ==
    /\ last.op \in Routes /\ last.status = 400
    /\ last.token = held /\ held # NoToken
    /\ user_get_by_id(held.sub) # NoUser
    /\ ~user_get_by_id(held.sub).is_active

\* C3 as stated: a registration is answered 201, having created the user
\* with its email, or 400 "Email already registered" while another user row
\* holds the email; of two registrations with the same email one is
\* answered 201 and the other 400, and no registration is answered
\* otherwise, however their steps interleave.
C3_OneSuccessOneConflict ==
    (last.op = "register") =>
        \/ /\ last.status = 201
           /\ \E u \in users : u.email = last.email /\ u.id = last.body.id
        \/ /\ last.status = 400
           /\ last.detail = "Email already registered"
           /\ \E u \in users : u.email = last.email

\* C4: no two user rows hold the same email, after any interleaving of the
\* steps of registrations with user updates and deletions.
C4_EmailUnique ==
    \A u \in users, v \in users : u.email = v.email => u = v

\* A registration passed the email lookup, another request then created a
\* user with that email, and the insert was refused by the unique index.
C4_Witness ==
    /\ last.op = "register" /\ last.status = 500
    /\ \E u \in users : u.email = last.email

\* A token the server minted at login: well formed, signed with the server
\* secret, carrying a subject.
Minted(token) ==
    /\ token # NoToken /\ token.parse
    /\ token.key = SECRET_KEY /\ token.sub # NoSub

\* C7: an access token minted at login authorizes a protected request of
\* its active user at every instant before its expiry and is answered 401
\* at the expiry instant and after it; a token signed with another secret
\* is answered 401 at every instant.
C7_StrictExpiry ==
    (last.op \in Routes /\ last.token # NoToken /\ last.token.parse) =>
        /\ last.token.key # SECRET_KEY => last.status = 401 /\ ~last.ran
        /\ Minted(last.token) =>
             LET live == user_get_by_id(last.token.sub)
             IN  /\ now >= last.token.exp => last.status = 401 /\ ~last.ran
                 /\ (now < last.token.exp /\ live # NoUser /\ live.is_active)
                        => last.ran /\ last.status \notin {400, 401}

\* The token of an active user is presented at its expiry instant and is
\* answered 401.
C7_Witness ==
    /\ last.op \in Routes /\ last.status = 401
    /\ Minted(last.token) /\ last.token = held
    /\ now = last.token.exp
    /\ user_get_by_id(last.token.sub) # NoUser
    /\ user_get_by_id(last.token.sub).is_active

\* The token of request r fails verification, carries no subject, or names
\* a user the store does not hold.
CredentialFailure(r) ==
    /\ r.token # NoToken
    /\ \/ ~r.token.parse
       \/ r.token.key # SECRET_KEY
       \/ now >= r.token.exp
       \/ r.token.sub = NoSub
       \/ user_get_by_id(r.token.sub) = NoUser

\* C8: a bad signature, an expired token, an unparseable token, a missing
\* subject and a subject matching no user are all answered with the same
\* response: 401, "Could not validate credentials", WWW-Authenticate:
\* Bearer, no body.
C8_OneFailureResponse ==
    (last.op \in Routes /\ CredentialFailure(last)) =>
        /\ last.status = 401
        /\ last.detail = "Could not validate credentials"
        /\ last.www = "Bearer"
        /\ last.body = NoBody

\* An unexpired token minted at login, whose user has been deleted, is
\* answered 401.
C8_Witness ==
    /\ last.op \in Routes /\ last.status = 401
    /\ Minted(last.token) /\ now < last.token.exp
    /\ user_get_by_id(last.token.sub) = NoUser

\* C9: a login is answered 401 with one generic body when the email matches
\* no user or the password is not the one stored for the user, whatever
\* is_active is; 400 when the password matches and the user is inactive;
\* 200 with an access token and a refresh token of the user, and the user,
\* otherwise.
C9_LoginOutcome ==
    (last.op = "login") =>
        LET u == user_get_by_email(last.email)
            match == /\ u # NoUser
                     /\ u.hashed_password = get_password_hash(last.password)
        IN  /\ ~match =>
                 /\ last.status = 401
                 /\ last.detail = "Invalid email or password"
                 /\ last.www = "Bearer"
                 /\ last.body = NoBody
            /\ (match /\ ~u.is_active) =>
                 last.status = 400 /\ last.body = NoBody
            /\ (match /\ u.is_active) =>
                 /\ last.status = 200
                 /\ last.body.access_token.kind = "access"
                 /\ last.body.access_token.sub = u.id
                 /\ last.body.refresh_token.kind = "refresh"
                 /\ last.body.refresh_token.sub = u.id
                 /\ last.body.token_type = "bearer"
                 /\ last.body.user = UserResponse(u)

\* An inactive user whose password was changed logs in with the password
\* given at registration and is answered 401.
C9_Witness ==
    /\ last.op = "login" /\ last.status = 401
    /\ last.password \in RegisterPasswords
    /\ \E u \in users : u.email = last.email /\ ~u.is_active

\* C11: once a DELETE on a task id has been answered 204, every later GET,
\* PUT or DELETE on that id by a user whose identity resolves is answered
\* 404, and no later list response holds a task with that id, whatever
\* requests (the creation of further tasks among them) were served since.
C11_DeletedStaysGone ==
    [][/\ (last'.op \in TaskRoutes /\ last'.ran /\ last'.task_id \in deleted)
           => last'.status = 404
       /\ (last'.op = "get_tasks" /\ last'.status = 200)
           => \A t \in last'.body.tasks : t.id \notin deleted]_vars

\* C12: a registration answered 201 returns the new user with the email of
\* the request; a login with the same email and password that follows it is
\* answered 200 with a token of that user; a GET /api/v1/auth/me that
\* follows the login with the token it returned is answered 200 with the
\* registered user: the id of the register response, the email registered.
C12_RoundTrip ==
    [][/\ (last'.op = "register" /\ last'.status = 201) =>
              /\ last'.body.email = last'.email
              /\ \E u \in users' : u.email = last'.email /\ u.id = last'.body.id
       /\ (last.op = "register" /\ last.status = 201 /\ last'.op = "login"
              /\ last'.email = last.email /\ last'.password = last.password) =>
              /\ last'.status = 200
              /\ last'.body.user.id = last.body.id
              /\ last'.body.user.email = last.email
              /\ last'.body.access_token.sub = last.body.id
              /\ held' = last'.body.access_token
       /\ \A p \in Procs :
            (last.op = "login" /\ last.status = 200 /\ Free(p)
               /\ req'[p].op = "me" /\ req'[p].token = last.body.access_token) =>
              /\ req'[p].pc = "body"
              /\ req'[p].cur.id = last.body.user.id
              /\ req'[p].cur.email = last.email
       /\ \A p \in Procs :
            (req[p].op = "me" /\ req[p].pc = "body" /\ last'.op = "me") =>
              /\ last'.status = 200
              /\ last'.body.id = req[p].cur.id
              /\ last'.body.email = req[p].cur.email
              /\ last'.body.id = last'.token.sub
              /\ last'.body.email = last'.token.email]_vars

\* GET /api/v1/auth/me with the token of the latest login is answered 200
\* with the user that registered second.
C12_Witness ==
    /\ last.op = "me" /\ last.status = 200
    /\ last.token = held
    /\ last.body.id = 2 /\ last.body.email = held.email
    /\ user_get_by_email(held.email).id = 2

\* C13: a POST /api/v1/tasks whose identity resolved, whatever the role of
\* the caller, is answered 201 and adds exactly one task to the store, with
\* an id no stored task has; the owner_id of the task is the id of the user
\* the token resolves to, never another user's, and that user is in the
\* store when the task is created.  No other task changes.
C13_CreatorOwns ==
    [][(last'.op = "create_task" /\ last'.ran) =>
          /\ last'.status = 201
          /\ last'.body \notin tasks
          /\ \A t \in tasks : t.id # last'.body.id
          /\ tasks' = tasks \cup {last'.body}
          /\ last'.body.owner_id = last'.token.sub
          /\ last'.body.owner_id = last'.cur.id
          /\ last'.body.title = last'.title
          /\ \E u \in users' : u.id = last'.body.owner_id /\ u.is_active]_vars

\* An admin who registered second creates a task while the first user owns
\* one; the new task is the admin's.
C13_Witness ==
    /\ last.op = "create_task" /\ last.status = 201
    /\ last.cur.role = "admin" /\ last.cur.id = 2
    /\ last.body.owner_id = 2 /\ last.body \in tasks
    /\ \E t \in tasks : t.owner_id = 1

\* C14: the access token minted by a login expires at its issue time plus
\* the ACCESS_TOKEN_EXPIRE_MINUTES setting loaded at startup, whatever the
\* value of the setting (plus 30 minutes only under the default).
C14_ConfiguredLifetime ==
    (last.op = "login" /\ last.status = 200) =>
        last.body.access_token.exp = now + settings.ACCESS_TOKEN_EXPIRE_MINUTES

\* C15: a PUT that passed the ownership check on a task that is still in
\* the store is answered 200 however its read and its write interleave
\* with those of another PUT on the task, and its commit leaves every field
\* of its body in the row with the value of the body and every other field
\* as the commit before it left it: after two concurrent PUTs each field
\* holds the value of the request that committed last among those setting
\* it, and no other value.
C15_LastWriteWins ==
    [][\A p \in Procs :
         (/\ req[p].op = "update_task" /\ req[p].pc = "write"
          /\ req'[p] = IdleReq /\ last'.op = "update_task"
          /\ task_get_by_id(req[p].task_id) # NoTask) =>
            LET r == req[p]
                before == task_get_by_id(r.task_id)
            IN  /\ last'.status = 200
                /\ \E after \in tasks' :
                     /\ after.id = r.task_id
                     /\ last'.body = after
                     /\ after.title = IF r.title # Unset THEN r.title
                                      ELSE before.title
                     /\ after.description =
                          IF r.description # Unset THEN r.description
                          ELSE before.description]_vars

\* C16: in every list response, also when creations and deletions of
\* other requests commit between the page query and the count query, the
\* page and the total range over the same scope (every task for an admin,
\* the tasks the caller owns for another user), the page holds at most
\* limit tasks and no more tasks than total, and total is the size of the
\* scope whatever skip and limit are.
C16_PageWithinTotal ==
    (last.op = "get_tasks" /\ last.status = 200) =>
        /\ last.cur.role # "admin" =>
               \A t \in last.body.tasks : t.owner_id = last.cur.id
        /\ last.body.total = Cardinality(Scope(last.cur))
        /\ Cardinality(last.body.tasks) <= last.limit
        /\ Cardinality(last.body.tasks) <= last.body.total

\* A title the schemas refuse: null, empty or longer than 255 characters.
BadTitle(title) ==
    title = Null \/ (title # Unset /\ Len(title) \notin 1..MaxTitleLength)

\* A create request, or an update request on a stored task its caller may
\* update.
Writes(r) ==
    \/ r.op = "create_task"
    \/ /\ r.op = "update_task"
       /\ \E t \in tasks : t.id = r.task_id /\ ~update_task_denied(t, r.cur)

\* C17: every stored task has a non-null title of 1 to 255 characters; a
\* create request, or an update request on a stored task by a user who may
\* update it, whose title is empty, too long or null is answered 422, never
\* 500, and leaves the tasks as they were.
C17_TitleValidated ==
    [][/\ \A t \in tasks' : t.title # Unset /\ ~BadTitle(t.title)
       /\ (/\ last'.gates = AllGates
           /\ Writes(last')
           /\ BadTitle(last'.title)) =>
              /\ last'.status = 422
              /\ tasks' = tasks
       /\ last'.op \in {"create_task", "update_task"} => last'.status # 500]_vars

\* C18: a PUT answered 200 leaves in the row the title and the description
\* of its body, a field the body leaves out as it was, and id, owner_id
\* and created_at as they were; it returns the row, and every other task
\* is as it was.
C18_UpdateFrame ==
    [][(last'.op = "update_task" /\ last'.status = 200) =>
          LET before == task_get_by_id(last'.task_id)
              after == last'.body
          IN  /\ before # NoTask
              /\ tasks' = (tasks \ {before}) \cup {after}
              /\ after.id = before.id
              /\ after.owner_id = before.owner_id
              /\ after.created_at = before.created_at
              /\ after.title = IF last'.title # Unset THEN last'.title
                               ELSE before.title
              /\ after.description =
                   IF last'.description # Unset THEN last'.description
                   ELSE before.description]_vars

\* A PUT with a description and no title, served after the clock advanced,
\* on a task whose title an earlier PUT changed, while another task exists.
C18_Witness ==
    /\ last.op = "update_task" /\ last.status = 200
    /\ last.title = Unset /\ last.description = "D1"
    /\ last.body.title = "T2" /\ last.body.description = "D1"
    /\ last.body.created_at < now
    /\ last.body \in tasks /\ Cardinality(tasks) = 2

\* C19: the deletion of a user removes every task the user owns, and in
\* every state, also when a task creation interleaves with the deletion of
\* its caller, the owner_id of every stored task is the id of exactly one
\* user in the store.
C19_OwnersExist ==
    [][/\ \A id \in UserIds :
            ((\E u \in users : u.id = id) /\ ~(\E u \in users' : u.id = id))
               => \A t \in tasks' : t.owner_id # id
       /\ \A t \in tasks' :
            Cardinality({u \in users' : u.id = t.owner_id}) = 1]_vars

\* A step of a request handler: a request goes on or is answered.  (The
\* store-side operations leave req as it is and set last to IdleReq.)
ApiStep == req' # req \/ last' # IdleReq

\* C20: no step of a request to register, login, me or the task routes
\* changes the role or the is_active flag of a user or the owner of a task;
\* a user a registration creates has role user and is_active true.  So a
\* user who is not an admin does not become one, and does not become the
\* owner of another user's task, through the API.
C20_NoEscalation ==
    [][ApiStep =>
          /\ \A u \in users, v \in users' :
                v.id = u.id => v.role = u.role /\ v.is_active = u.is_active
          /\ \A v \in users' :
                (\A u \in users : u.id # v.id) =>
                    /\ v.role = "user" /\ v.is_active
                    /\ last'.op = "register" /\ last'.body = UserResponse(v)
          /\ \A t \in tasks, w \in tasks' :
                w.id = t.id => w.owner_id = t.owner_id]_vars

\* A registration creates a second user with role user while the first
\* user has been made an admin.
C20_Witness ==
    /\ last.op = "register" /\ last.status = 201
    /\ last.body.role = "user" /\ last.body.is_active
    /\ \E u \in users : u.id = last.body.id /\ u.role = "user"
    /\ \E u \in users : u.id # last.body.id /\ u.role = "admin"

(* --------------------- rejected requests change nothing ---------------- *)

Rejected == {400, 401, 403, 404}

\* A step of a request that does not answer it yet.
Unanswered == req' # req /\ last' = IdleReq

\* C21: a request answered 400, 401, 403 or 404 leaves the user store and
\* the task store as they were: the step that answers it changes neither
\* store, and no step of a request changes a store before the step that
\* answers the request.  After a registration rejected as a duplicate the
\* user of that email has the full_name it had and every password that
\* authenticated still does; after a rejected PUT or DELETE the task of the
\* path, when there is one, is the row it was.
C21_RejectedLeavesStores ==
    [][ /\ Unanswered => users' = users /\ tasks' = tasks
        /\ last'.status \in Rejected =>
              /\ users' = users
              /\ tasks' = tasks
              /\ last'.op = "register" =>
                    \A u \in users : u.email = last'.email =>
                       /\ \E v \in users' : /\ v.id = u.id
                                            /\ v.full_name = u.full_name
                       /\ \A password \in Passwords :
                             authenticate(u.email, password) = u =>
                                \E v \in users' :
                                   /\ v.email = u.email
                                   /\ verify_password(password, v.hashed_password)
              /\ last'.op \in {"update_task", "delete_task"} =>
                    \A t \in tasks : t.id = last'.task_id => t \in tasks'
      ]_vars

\* A registration under another name and another password than the ones of
\* the user holding the email is rejected as a duplicate while a task is
\* stored.
C21_Witness ==
    /\ last.op = "register" /\ last.status = 400
    /\ \E u \in users : /\ u.email = last.email
                        /\ u.full_name # last.full_name
                        /\ ~verify_password(last.password, u.hashed_password)
    /\ tasks # {}

====
